---- MODULE Spec2Model ----
(***************************************************************************)
(* Network-construction layer of decisionmaking_snep                       *)
(* (code/simulation/circuits.py): population partitioning, structured      *)
(* weights, process-wide random seeding, the colored-noise stimulus and     *)
(* the clipping synapses of the sensory circuit.                            *)
(*                                                                         *)
(* Fractions (sub) are pairs <<num, den>> with den > 0 and arithmetic on    *)
(* them is exact.  Python's int() truncates toward zero.  The process-wide  *)
(* random generator is a deterministic state machine: seeding sets its      *)
(* state, every draw returns the state and advances it.                     *)
(***************************************************************************)
EXTENDS Integers, Sequences, FiniteSets, TLC

\* ---------------------------------------------------------------- bounds
MaxN == 4
MaxT == 3
MaxSpikes == 3
MaxBase == 3
MaxG == 3
MaxB == 3
MaxB0 == 1
MaxBurst == 2
RngMod == 7

\* ------------------------------------------------------- small arithmetic
Min(a, b) == IF a < b THEN a ELSE b

Max(a, b) == IF a > b THEN a ELSE b

\* Python int(num/den) for den > 0: truncation toward zero.
Trunc(num, den) == IF num >= 0 THEN num \div den ELSE -((-num) \div den)

\* slice.indices(): a negative bound counts from the end, then is clamped.
SliceBound(i, N) == IF i < 0 THEN Max(i + N, 0) ELSE Min(i, N)

\* group[start:stop] of a group of N units: the half-open index range a..b-1;
\* creating the subgroup raises IndexError when a >= b.
Subgroup(N, start, stop) ==
    LET a == SliceBound(start, N)
        b == SliceBound(stop, N)
    IN  [err |-> a >= b, a |-> a, b |-> b]

IsErr(sg) == sg.err

Units(sg) == IF IsErr(sg) THEN {} ELSE sg.a .. (sg.b - 1)

Size(sg) == Cardinality(Units(sg))

\* --------------------------------------------------- the random generator
RngC == 3

RngNext(s) == (s + RngC) % RngMod

\* the generator state after n draws from state s
RECURSIVE Skip(_, _)
Skip(s, n) == IF n = 0 THEN s ELSE Skip(RngNext(s), n - 1)

\* the values of n successive draws from state s
Draws(s, n) == [k \in 1 .. n |-> Skip(s, k - 1)]

\* a seeding that reaches another generator than the one the draws use
GSeedOtherGenerator(g, x) == [g EXCEPT !.nseed = @ + 1]

\* seed(x) / np.random.seed(x)
GSeed(g, x) == [g EXCEPT !.s = x % RngMod, !.nseed = @ + 1]

\* n draws: the generator advances; draws taken before any seeding are counted
GDraw(g, n) ==
    [g EXCEPT !.s = Skip(@, n),
              !.ndraw = @ + n,
              !.early = IF g.nseed = 0 THEN @ + n ELSE @]

\* rand() < p with p = pn/pd, for the uniform draw u in 0..RngMod-1
Bern(u, pn, pd) == u * pd < pn * RngMod

\* randn(): a signed sample, in units of one standard deviation
Randn(u) == (u % 7) - 3


\* ----------------------------------------------------------- configuration
\* selective fractions offered to the builders, valid ones and invalid ones
Subs == {<<-1, 4>>, <<0, 1>>, <<1, 4>>, <<1, 3>>, <<1, 2>>, <<3, 4>>}

ValidSub(sub) == sub[1] > 0 /\ 2 * sub[1] <= sub[2]

N_I == 1
N_X == 2

\* connection probabilities of the parameter tables: eps, epsX*(1+alphaX),
\* epsX*(1-alphaX), epsX
Eps == <<1, 2>>
EpsXSame == <<3, 4>>
EpsXDiff == <<1, 4>>
EpsX == <<1, 2>>

Seeds == {1, 2}

VARIABLES cfg, seedv, run, pc, stim, gen, groups, subgroups, label, synapses,
          initc, out, syn, dend

vars == <<cfg, seedv, run, pc, stim, gen, groups, subgroups, label, synapses,
          initc, out, syn, dend>>

NoMap == [x \in {} |-> 0]

FreshGen(s) == [s |-> s, nseed |-> 0, ndraw |-> 0, early |-> 0]

\* ------------------------------------------------------ population builder
\* mk_dec_circuit: N_D1, N_D2, N_D3 and the three slices of decE
N_D1(N_E, sub) == Trunc(N_E * sub[1], sub[2])

N_D3(N_E, sub) == Trunc(N_E * (sub[2] - 2 * sub[1]), sub[2])

DecSubgroups(N_E, sub) ==
    LET n1 == N_D1(N_E, sub)
        n2 == n1
        n3 == N_D3(N_E, sub)
    IN  [DE1 |-> Subgroup(N_E, 0, n1),
         DE2 |-> Subgroup(N_E, n1, n1 + n2),
         DE3 |-> Subgroup(N_E, -n3, N_E)]

\* decE1.label = 1; decE2.label = 2; decE3.label = 3, in this order
DecLabels(N_E, sg) ==
    LET l0 == [u \in 0 .. N_E - 1 |-> 0]
        l1 == [u \in 0 .. N_E - 1 |-> IF u \in Units(sg.DE1) THEN 1 ELSE l0[u]]
        l2 == [u \in 0 .. N_E - 1 |-> IF u \in Units(sg.DE2) THEN 2 ELSE l1[u]]
    IN  [u \in 0 .. N_E - 1 |-> IF u \in Units(sg.DE3) THEN 3 ELSE l2[u]]

\* mk_sen_circuit / mk_sen_circuit_plastic: N_E1 and the slices of senE, dend
N_E1(N_E, sub) == Trunc(N_E * sub[1], sub[2])

SenSubgroups(N_E, sub, two_comp) ==
    LET n1 == N_E1(N_E, sub)
        s1 == Subgroup(N_E, 0, n1)
        s2 == Subgroup(N_E, n1, N_E)
    IN  IF two_comp
        THEN [SE1 |-> s1, SE2 |-> s2, dend1 |-> s1, dend2 |-> s2]
        ELSE [SE1 |-> s1, SE2 |-> s2]

AnyErr(sg) == \E k \in DOMAIN sg : IsErr(sg[k])


\* ---------------------------------------------------- connectivity builder
Pairs(Np, Nq) == (0 .. Np - 1) \X (0 .. Nq - 1)

\* position of a pair in the order in which pairs are visited
PairIdx(p, Nq) == p[1] * Nq + p[2]

\* 1-based rank of pair p among the pairs of set S, in visiting order
Rank(p, S, Nq) == Cardinality({q \in S : PairIdx(q, Nq) <= PairIdx(p, Nq)})

\* connect(p=pr) over the candidate pairs: one uniform draw per candidate
Connect(s, cand, Nq, pr) ==
    {p \in cand : Bern(Skip(s, Rank(p, cand, Nq) - 1), pr[1], pr[2])}

\* w[targets] = 'base * (1 + randn()*0.5)': one randn draw per target
Jitter(s, w, targets, Nq, base) ==
    [p \in DOMAIN w |->
        IF p \in targets
        THEN [base |-> base, z |-> Randn(Skip(s, Rank(p, targets, Nq) - 1))]
        ELSE w[p]]

\* the weight of a connection whose w was never assigned
W0 == [base |-> "0", z |-> 0]

\* decision circuit: assembly conditions on the labels of the two endpoints
DecCondsame(lpre, lpost) == lpre # 3 /\ lpre = lpost

DecConddiff(lpre, lpost) ==
    (lpre # 3 /\ lpre # lpost) \/ (lpre = 3 /\ lpost # 3)

DecCondrest(lpre, lpost) == lpost = 3

\* syn.w[cond] = 'val': masked assignment over the connected pairs
Masked(w, sel, val) == [p \in DOMAIN w |-> IF p \in sel THEN val ELSE w[p]]

\* the connected pairs selected by each condition string
SelSame(pairs, lab) == {p \in pairs : DecCondsame(lab[p[1]], lab[p[2]])}

SelDiff(pairs, lab) == {p \in pairs : DecConddiff(lab[p[1]], lab[p[2]])}

SelRest(pairs, lab) == {p \in pairs : DecCondrest(lab[p[1]], lab[p[2]])}

\* the masked assignments with conddiff applied last
DecWeightsDiffLast(pairs, lab, g) ==
    LET w0 == [p \in pairs |-> [scale |-> "0", base |-> g]]
        w1 == Masked(w0, SelSame(pairs, lab), [scale |-> "w_p", base |-> g])
        w2 == Masked(w1, SelRest(pairs, lab), [scale |-> "1", base |-> g])
    IN  Masked(w2, SelDiff(pairs, lab), [scale |-> "w_m", base |-> g])

\* the three masked assignments of mk_dec_circuit, in source order
DecWeights(pairs, lab, g) ==
    LET w0 == [p \in pairs |-> [scale |-> "0", base |-> g]]
        w1 == Masked(w0, SelSame(pairs, lab), [scale |-> "w_p", base |-> g])
        w2 == Masked(w1, SelDiff(pairs, lab), [scale |-> "w_m", base |-> g])
    IN  Masked(w2, SelRest(pairs, lab), [scale |-> "1", base |-> g])

\* the projections of mk_dec_circuit
DecSynapses(N_E, lab) ==
    LET ee == Pairs(N_E, N_E)
    IN  [synDEDEn |-> [pairs |-> ee,
                       w |-> [p \in ee |-> IF p[1] = p[2] THEN 1 ELSE 0],
                       w_nmda |-> DecWeights(ee, lab, "gEEn/gleakE")],
         synDEDEa |-> [pairs |-> ee, w |-> DecWeights(ee, lab, "gEEa/gleakE")],
         synDEDIa |-> [pairs |-> Pairs(N_E, N_I), w |-> "gEIa/gleakI"],
         synDIDE |-> [pairs |-> Pairs(N_I, N_E), w |-> "gIE/gleakE"],
         synDIDI |-> [pairs |-> Pairs(N_I, N_I), w |-> "gII/gleakI"]]


\* sensory circuit: 'i < N*sub' on the index of an endpoint
SenLt(i, N, sub) == i * sub[2] < N * sub[1]

SenCondsame(p, Np, Nq, sub) ==
    \/ SenLt(p[1], Np, sub) /\ SenLt(p[2], Nq, sub)
    \/ ~SenLt(p[1], Np, sub) /\ ~SenLt(p[2], Nq, sub)

SenConddiff(p, Np, Nq, sub) ==
    \/ SenLt(p[1], Np, sub) /\ ~SenLt(p[2], Nq, sub)
    \/ ~SenLt(p[1], Np, sub) /\ SenLt(p[2], Nq, sub)

\* connect(p='eps') followed by w = 'base * (1 + randn()*0.5)' on every
\* connection; the generator g is threaded through
JitteredProj(g, Np, Nq, pr, base) ==
    LET cand == Pairs(Np, Nq)
        c == Connect(g.s, cand, Nq, pr)
        g1 == GDraw(g, Cardinality(cand))
        w == Jitter(g1.s, [p \in c |-> W0], c, Nq, base)
    IN  [pairs |-> c, w |-> w, g |-> GDraw(g1, Cardinality(c))]

\* synSESE: connect(p='eps'), then w[condsame], then w[conddiff]
ProjSESE(g, N_E, sub) ==
    LET cand == Pairs(N_E, N_E)
        c == Connect(g.s, cand, N_E, Eps)
        g1 == GDraw(g, Cardinality(cand))
        same == {p \in c : SenCondsame(p, N_E, N_E, sub)}
        w1 == Jitter(g1.s, [p \in c |-> W0], same, N_E, "w_p * gEE/gleakE")
        g2 == GDraw(g1, Cardinality(same))
        diff == {p \in c : SenConddiff(p, N_E, N_E, sub)}
        w2 == Jitter(g2.s, w1, diff, N_E, "w_m * gEE/gleakE")
    IN  [pairs |-> c, w |-> w2, g |-> GDraw(g2, Cardinality(diff))]

\* synSXSE: connect(condition=condsame, p=...), connect(condition=conddiff,
\* p=...), then w on every connection
ProjSXSE(g, N_E, sub) ==
    LET all == Pairs(N_X, N_E)
        cs == {p \in all : SenCondsame(p, N_X, N_E, sub)}
        c1 == Connect(g.s, cs, N_E, EpsXSame)
        g1 == GDraw(g, Cardinality(cs))
        cd == {p \in all : SenConddiff(p, N_X, N_E, sub)}
        c2 == Connect(g1.s, cd, N_E, EpsXDiff)
        g2 == GDraw(g1, Cardinality(cd))
        c == c1 \cup c2
        w == Jitter(g2.s, [p \in c |-> W0], c, N_E, "gXE/gleakE")
    IN  [pairs |-> c, w |-> w, g |-> GDraw(g2, Cardinality(c))]

Strip(pr) == [pairs |-> pr.pairs, w |-> pr.w]

\* mk_sen_synapses: the six projections, built in source order
MkSenSynapses(g, N_E, sub) ==
    LET ee == ProjSESE(g, N_E, sub)
        ei == JitteredProj(ee.g, N_E, N_I, Eps, "gEI/gleakI")
        ie == JitteredProj(ei.g, N_I, N_E, Eps, "gIE/gleakE")
        ii == JitteredProj(ie.g, N_I, N_I, Eps, "gII/gleakI")
        xe == ProjSXSE(ii.g, N_E, sub)
        xi == JitteredProj(xe.g, N_X, N_I, EpsX, "gXI/gleakI")
    IN  [syn |-> [synSESE |-> Strip(ee), synSESI |-> Strip(ei),
                  synSISE |-> Strip(ie), synSISI |-> Strip(ii),
                  synSXSE |-> Strip(xe), synSXSI |-> Strip(xi)],
         g |-> xi.g]

\* Synapses(pre, post, model='w = wname : 1') with connect(p='eps')
PlainProj(g, Np, Nq, wname) ==
    LET cand == Pairs(Np, Nq)
    IN  [pairs |-> Connect(g.s, cand, Nq, Eps), w |-> wname,
         g |-> GDraw(g, Cardinality(cand))]

\* mk_fffb_synapses: feedforward SE_k -> DE_k, feedback DE_k -> SE_k or dend_k
FffbSynapses(g, dsg, ssg, two_comp) ==
    LET fb1 == IF two_comp THEN ssg.dend1 ELSE ssg.SE1
        fb2 == IF two_comp THEN ssg.dend2 ELSE ssg.SE2
        a == PlainProj(g, Size(ssg.SE1), Size(dsg.DE1), "w_ff")
        b == PlainProj(a.g, Size(ssg.SE2), Size(dsg.DE2), "w_ff")
        c == PlainProj(b.g, Size(dsg.DE1), Size(fb1), "w_fb")
        d == PlainProj(c.g, Size(dsg.DE2), Size(fb2), "w_fb")
    IN  [syn |-> [synSE1DE1 |-> Strip(a), synSE2DE2 |-> Strip(b),
                  synDE1SE1 |-> Strip(c), synDE2SE2 |-> Strip(d)],
         g |-> d.g]

\* mk_poisson_fb: N_DX mock decision units projecting onto dend1
MkPoissonFb(g, decN, decSub, dend1) ==
    LET N_DX == Trunc(decSub[1] * decN, decSub[2])
        pr == PlainProj(g, Max(N_DX, 0), Size(dend1), "w_fb")
    IN  [syn |-> Strip(pr), g |-> pr.g]


\* ------------------------------------------------------ stimulus generator
\* values of the stimulus parameter table
StimParams == [I0 |-> 1, I0_wimmer |-> 1, c |-> 1, mu1 |-> 1, mu2 |-> -1,
               sigma_stim |-> 1, sigma_ind |-> 1]

\* Ornstein-Uhlenbeck recursion over the draws d: z[k] = z[k-1]/2 + randn()
RECURSIVE OUrec(_, _)
OUrec(d, k) == IF k = 0 THEN 0 ELSE Trunc(OUrec(d, k - 1), 2) + Randn(d[k])

\* get_OUstim(n, tau, flip): n draws, the trace optionally time-reversed
GetOUstim(s, n, flip) ==
    LET d == Draws(s, n)
        z == [k \in 1 .. n |-> OUrec(d, k)]
    IN  IF flip THEN [k \in 1 .. n |-> z[n + 1 - k]] ELSE z

\* onset ramp 1 - exp(-t/tau_ramp) at the resolution of the model
Ramp(t) == IF t = 0 THEN 0 ELSE 1

\* the first seeding always taking the trial seed
StimSeedAlwaysTrial(replicate_stim, seed) == seed

\* the seed of the first seeding of mk_sen_stimulus
StimSeed(replicate_stim, seed) == IF replicate_stim THEN 123 ELSE seed

\* np.random.randint(10000): an integer computed from one uniform draw
RandInt(u) == 2 * u + 1

\* the second seeding: np.random.seed(np.random.randint(10000))
Reseed(g) == GSeed(GDraw(g, 1), RandInt(g.s))

\* the padding without its leading zeros
PaddedNoLead(x, stim_on, stim_off, runtime) ==
    x \o [k \in 1 .. runtime - stim_off |-> 0]

\* np.concatenate((zeros(stim_on), x, zeros(runtime - stim_off)))
Padded(x, stim_on, stim_off, runtime) ==
    [k \in 1 .. stim_on |-> 0] \o x \o [k \in 1 .. runtime - stim_off |-> 0]

\* mk_sen_stimulus for the precomputed (TimedArray) stimulus
StimArrays(g0, c, seed) ==
    LET P == StimParams
        nn == Trunc(c.senN * c.senSub[1], c.senSub[2])
        tps == c.stim_off - c.stim_on
        flip == c.ramp_stim
        mu(m) == [k \in 1 .. tps |->
                     IF c.ramp_stim THEN m * Ramp(k - 1) ELSE m]
        g1 == GSeed(g0, StimSeed(c.replicate_stim, seed))
        z1 == GetOUstim(g1.s, tps, flip)
        g2 == GDraw(g1, tps)
        z2 == GetOUstim(g2.s, tps, flip)
        g3 == GDraw(g2, tps)
        g4 == Reseed(g3)
        seed2 == RandInt(g3.s)
        l1 == GetOUstim(g4.s, tps * nn, flip)
        g5 == GDraw(g4, tps * nn)
        l2 == GetOUstim(g5.s, tps * nn, flip)
        g6 == GDraw(g5, tps * nn)
        zk1 == [u \in 0 .. nn - 1 |-> [k \in 1 .. tps |-> l1[u * tps + k]]]
        zk2 == [u \in 0 .. nn - 1 |-> [k \in 1 .. tps |-> l2[u * tps + k]]]
        i1 == [u \in 0 .. nn - 1 |-> [k \in 1 .. tps |->
                 P.I0 + P.I0_wimmer * (P.c * mu(P.mu1)[k] + P.sigma_stim * z1[k]
                                       + P.sigma_ind * zk1[u][k])]]
        i2 == [u \in 0 .. nn - 1 |-> [k \in 1 .. tps |->
                 P.I0 + P.I0_wimmer * (P.c * mu(P.mu2)[k] + P.sigma_stim * z2[k]
                                       + P.sigma_ind * zk2[u][k])]]
    IN  [res |-> [state |-> "array", nn |-> nn, seed2 |-> seed2, z1 |-> z1, z2 |-> z2,
                  zk1 |-> zk1, zk2 |-> zk2, stim1 |-> i1, stim2 |-> i2,
                  i1t |-> [u \in 0 .. nn - 1 |->
                             Padded(i1[u], c.stim_on, c.stim_off, c.runtime)],
                  i2t |-> [u \in 0 .. nn - 1 |->
                             Padded(i2[u], c.stim_on, c.stim_off, c.runtime)]],
         g |-> g6]


\* ------------------------------------------------------ plasticity engine
\* lower clip bound of the update rule, -100*amp
IMax == 100

\* values of eta and B0 in the plasticity parameter table
DefaultPar == [eta |-> 30, B0 |-> 1]

PlasticPars == {[eta |-> e, B0 |-> b] : e \in {30, 50}, b \in 0 .. MaxB0}

\* the rule attached to the whole dendritic population
PlasticUnitsAll(sg) == Units(sg.dend1) \cup Units(sg.dend2)

\* the units that carry the update rule: dend1.run_regularly(...)
PlasticUnits(sg) == Units(sg.dend1)

\* the dendritic state before the plastic circuit is built
NoDend(par) ==
    [par |-> par, built |-> FALSE, plastic |-> {}, B |-> NoMap,
     burst_start |-> NoMap, burst_stop |-> NoMap, muOUd |-> NoMap,
     tick |-> 0, seen |-> 0, held |-> NoMap, above |-> NoMap]

\* dend = NeuronGroup(N_E, ...): B, burst_start, burst_stop start at 0;
\* dend1.muOUd = 0*amp, the other units keep the default 0
BuiltDend(par, N_E, plastic) ==
    [par |-> par, built |-> TRUE, plastic |-> plastic,
     B |-> [u \in 0 .. N_E - 1 |-> 0],
     burst_start |-> [u \in 0 .. N_E - 1 |-> 0],
     burst_stop |-> [u \in 0 .. N_E - 1 |-> 0],
     muOUd |-> [u \in 0 .. N_E - 1 |-> 0],
     tick |-> 0, seen |-> 0,
     held |-> [u \in 0 .. N_E - 1 |-> TRUE],
     above |-> [u \in 0 .. N_E - 1 |-> FALSE]]

\* the update rule with the target left out
UpdateRuleNoTarget(mu, B, par) == Max(-IMax, Min(mu - par.eta * B, 0))

\* the update rule with the sign of the error inverted
UpdateRuleWrongSign(mu, B, par) ==
    Max(-IMax, Min(mu + par.eta * (B - par.B0), 0))

\* 'muOUd = clip(muOUd - eta * (B - B0), -100*amp, 0)'
UpdateRule(mu, B, par) == Max(-IMax, Min(mu - par.eta * (B - par.B0), 0))

\* --------------------------------------------------------------- actions
Fail == /\ pc' = "failed"
        /\ UNCHANGED <<groups, subgroups, label, synapses, gen>>

\* mk_dec_circuit, the first call of get_hierarchical_net
MkDecCircuit ==
    /\ pc = "start" /\ cfg.kind = "hier"
    /\ LET sg == DecSubgroups(cfg.decN, cfg.decSub)
           ext == Subgroup(cfg.decN, 0, 2 * N_D1(cfg.decN, cfg.decSub))
           lab == DecLabels(cfg.decN, sg)
       IN  IF AnyErr(sg) \/ IsErr(ext)
           THEN Fail
           ELSE /\ pc' = "dec"
                /\ groups' = groups \cup {"DE", "DI", "DX", "DX3", "DXI"}
                /\ subgroups' = sg @@ subgroups
                /\ label' = lab
                /\ synapses' = DecSynapses(cfg.decN, lab) @@ synapses
                /\ gen' = gen
    /\ UNCHANGED <<cfg, seedv, run, stim, initc, out, syn, dend>>

\* mk_sen_circuit, the second call of get_hierarchical_net
MkSenCircuit ==
    /\ pc = "dec" /\ cfg.kind = "hier"
    /\ LET sg == SenSubgroups(cfg.senN, cfg.senSub, cfg.two_comp)
           r == MkSenSynapses(gen, cfg.senN, cfg.senSub)
       IN  IF AnyErr(sg)
           THEN Fail
           ELSE /\ pc' = "sen"
                /\ groups' = groups \cup {"SE", "SI", "SX"}
                                \cup (IF cfg.two_comp THEN {"dend"} ELSE {})
                /\ subgroups' = sg @@ subgroups
                /\ synapses' = r.syn @@ synapses
                /\ gen' = r.g
                /\ label' = label
    /\ UNCHANGED <<cfg, seedv, run, stim, initc, out, syn, dend>>

\* mk_fffb_synapses, the third call of get_hierarchical_net
MkFffbSynapses ==
    /\ pc = "sen" /\ cfg.kind = "hier"
    /\ LET r == FffbSynapses(gen, subgroups, subgroups, cfg.two_comp)
       IN  /\ synapses' = r.syn @@ synapses
           /\ gen' = r.g
    /\ pc' = "fffb"
    /\ UNCHANGED <<cfg, seedv, run, stim, groups, subgroups, label, initc,
                   out, syn, dend>>

\* mk_sen_circuit_plastic, the first call of get_plasticity_net
MkSenCircuitPlastic ==
    /\ pc = "start" /\ cfg.kind = "plastic"
    /\ LET sg == SenSubgroups(cfg.senN, cfg.senSub, TRUE)
           stimsg == Subgroup(cfg.senN, 0, N_E1(cfg.senN, cfg.senSub))
           r == MkSenSynapses(gen, cfg.senN, cfg.senSub)
           fb == MkPoissonFb(r.g, cfg.decN, cfg.decSub, sg.dend1)
       IN  IF AnyErr(sg) \/ (cfg.online_stim /\ IsErr(stimsg))
           THEN Fail /\ dend' = dend
           ELSE /\ pc' = "sen"
                /\ dend' = BuiltDend(dend.par, cfg.senN, PlasticUnits(sg))
                /\ groups' = groups \cup {"SE", "dend", "SI", "SX", "DX"}
                      \cup (IF cfg.online_stim THEN {"stim_common", "stimE"}
                                               ELSE {})
                /\ subgroups' = sg @@ subgroups
                /\ synapses' = [synDXdend |-> fb.syn,
                                 syn_burst_trace |->
                                    [pairs |-> {<<i, i>> : i \in 0 .. cfg.senN - 1},
                                     w |-> "none"]]
                                @@ r.syn @@ synapses
                /\ gen' = fb.g
                /\ label' = label
    /\ UNCHANGED <<cfg, seedv, run, stim, initc, out, syn>>

\* seed(task_info['seed']) of get_hierarchical_net / get_plasticity_net
SeedNet ==
    /\ \/ pc = "fffb" /\ cfg.kind = "hier"
       \/ pc = "sen" /\ cfg.kind = "plastic"
    /\ gen' = GSeed(gen, seedv[run])
    /\ pc' = "seeded"
    /\ UNCHANGED <<cfg, seedv, run, stim, groups, subgroups, label, synapses,
                   initc, out, syn, dend>>

\* init_conds_dec: V of DE and of DI from rand()
InitCondsDec ==
    /\ pc = "seeded" /\ cfg.kind = "hier"
    /\ LET g1 == GDraw(gen, cfg.decN)
       IN  /\ initc' = [DE_V |-> Draws(gen.s, cfg.decN),
                         DI_V |-> Draws(g1.s, N_I)] @@ initc
           /\ gen' = GDraw(g1, N_I)
    /\ pc' = "initdec"
    /\ UNCHANGED <<cfg, seedv, run, stim, groups, subgroups, label, synapses,
                   out, syn, dend>>

\* init_conds_sen: V and g_ea of SE and of SI from rand()
InitCondsSen ==
    /\ \/ pc = "initdec" /\ cfg.kind = "hier"
       \/ pc = "seeded" /\ cfg.kind = "plastic"
    /\ LET g1 == GDraw(gen, cfg.senN)
           g2 == GDraw(g1, N_I)
           g3 == GDraw(g2, cfg.senN)
       IN  /\ initc' = [SE_V |-> Draws(gen.s, cfg.senN),
                         SI_V |-> Draws(g1.s, N_I),
                         SE_g_ea |-> Draws(g2.s, cfg.senN),
                         SI_g_ea |-> Draws(g3.s, N_I)] @@ initc
           /\ gen' = GDraw(g3, N_I)
    /\ pc' = "initsen"
    /\ UNCHANGED <<cfg, seedv, run, stim, groups, subgroups, label, synapses,
                   out, syn, dend>>

\* mk_monitors / mk_monitors_plastic and Network(...): the net is returned
Assemble ==
    /\ pc = "initsen"
    /\ pc' = "done"
    /\ UNCHANGED <<cfg, seedv, run, stim, gen, groups, subgroups, label,
                   synapses, initc, out, syn, dend>>

\* mk_sen_stimulus, called before or after the assembler
MkSenStimulus ==
    /\ stim.state = "todo"
    /\ pc \in {"start", "done"}
    /\ LET nn == Trunc(cfg.senN * cfg.senSub[1], cfg.senSub[2])
           r == StimArrays(gen, cfg, seedv[run])
       IN  IF cfg.online_stim
           THEN /\ gen' = GSeed(gen, StimSeed(cfg.replicate_stim, seedv[run]))
                /\ stim' = [state |-> "none"]
           ELSE IF nn < 0
           THEN /\ gen' = GSeed(gen, StimSeed(cfg.replicate_stim, seedv[run]))
                /\ stim' = [state |-> "error"]
           ELSE /\ gen' = r.g
                /\ stim' = r.res
    /\ UNCHANGED <<cfg, seedv, run, pc, groups, subgroups, label, synapses,
                   initc, out, syn, dend>>

\* the run is over (the stimulus was generated and no build is under way);
\* an independent second run starts in the same configuration, the generator
\* being in whatever state the process left it
NextRun ==
    /\ run = 1
    /\ pc \in {"start", "done", "failed"}
    /\ stim.state # "todo"
    /\ out' = [synapses |-> synapses, stim |-> stim, pc |-> pc]
    /\ run' = 2
    /\ pc' = "start"
    /\ stim' = [state |-> "todo"]
    /\ \E s \in 0 .. RngMod - 1 : gen' = FreshGen(s)
    /\ groups' = {}
    /\ subgroups' = NoMap
    /\ label' = NoMap
    /\ synapses' = NoMap
    /\ initc' = NoMap
    /\ dend' = NoDend(dend.par)
    /\ UNCHANGED <<cfg, seedv, syn>>


\* ------------------------------------------------- clipping synapses at run time
Clip(v, lo, hi) == Max(lo, Min(v, hi))

SenProjections ==
    {"synSESE", "synSESI", "synSISE", "synSISI", "synSXSE", "synSXSI"}

\* build-time weight 'base * (1 + randn()*0.5)', in half units of the base
JitteredWeight(base, z) == base * (2 + z)

\* syn.w = 'base * (1 + randn()*0.5)' at build time, for one connection of one
\* projection; base, the randn() draw and gmax range over bounded sets
AssignW ==
    /\ syn.name = "none"
    /\ \E name \in SenProjections, base \in 1 .. MaxBase,
          u \in 0 .. RngMod - 1, G \in 1 .. MaxG :
          syn' = [name |-> name, w |-> JitteredWeight(base, Randn(u)),
                  w0 |-> JitteredWeight(base, Randn(u)), x |-> 0,
                  gmax |-> 2 * G, n |-> 0]
    /\ UNCHANGED <<cfg, seedv, run, pc, stim, gen, groups, subgroups, label,
                   synapses, initc, out, dend>>

\* on_pre of a projection of mk_sen_synapses, for one connection:
\*   x_ea += w (x_i += w)  ;  w = clip(w, 0, gmax)
OnPre ==
    /\ syn.name \in SenProjections
    /\ syn.n < MaxSpikes
    /\ syn' = [syn EXCEPT !.x = @ + syn.w,
                          !.w = Clip(syn.w, 0, syn.gmax),
                          !.n = @ + 1]
    /\ UNCHANGED <<cfg, seedv, run, pc, stim, gen, groups, subgroups, label,
                   synapses, initc, out, dend>>

\* ------------------------------------------- plastic network at run time
Running == pc = "done" /\ cfg.kind = "plastic" /\ dend.built

OtherVars ==
    <<cfg, seedv, run, pc, stim, gen, groups, subgroups, label, synapses,
      initc, out, syn>>

\* a spike of soma u through syn_burst_trace (j = i):
\*   burst_start += 1 ; burst_stop = 1
SomaSpike ==
    /\ Running
    /\ \E u \in DOMAIN dend.B :
          /\ dend.burst_start[u] < MaxBurst
          /\ dend' = [dend EXCEPT !.burst_start[u] = @ + 1,
                                  !.burst_stop[u] = 1]
    /\ UNCHANGED OtherVars

\* burst_stop of unit u decays below min_burst_stop: the unit is no longer
\* refractory
BurstStopDecay ==
    /\ Running
    /\ \E u \in DOMAIN dend.B :
          /\ dend.burst_stop[u] = 1
          /\ dend' = [dend EXCEPT !.burst_stop[u] = 0]
    /\ UNCHANGED OtherVars

\* burst_start of unit u decays
BurstStartDecay ==
    /\ Running
    /\ \E u \in DOMAIN dend.B :
          /\ dend.burst_start[u] > 0
          /\ dend' = [dend EXCEPT !.burst_start[u] = @ - 1]
    /\ UNCHANGED OtherVars

\* threshold 'burst_start > 1 + min_burst_stop' of a non-refractory unit
\* (refractory while burst_stop >= min_burst_stop), reset
\*   B += 1 ; burst_start = 0
DendThreshold ==
    /\ Running
    /\ \E u \in DOMAIN dend.B :
          /\ dend.burst_stop[u] = 0
          /\ dend.burst_start[u] > 1
          /\ dend.B[u] < MaxB
          /\ dend' = [dend EXCEPT !.B[u] = @ + 1, !.burst_start[u] = 0]
    /\ UNCHANGED OtherVars

\* the tau_update tick of dend1.run_regularly: the rule runs on every unit
\* that carries it; held and above record what the ticks so far have seen
Tick ==
    /\ Running
    /\ dend' = [dend EXCEPT
          !.muOUd = [u \in DOMAIN @ |->
                       IF u \in dend.plastic
                       THEN UpdateRule(@[u], dend.B[u], dend.par)
                       ELSE @[u]],
          !.tick = 1 - @,
          !.seen = Min(@ + 1, 2),
          !.held = [u \in DOMAIN @ |-> @[u] /\ dend.B[u] = dend.par.B0],
          !.above = [u \in DOMAIN @ |-> @[u] \/ dend.B[u] > dend.par.B0]]
    /\ UNCHANGED OtherVars

\* ---------------------------------------------------------- specifications
NoSyn == [name |-> "none", w |-> 0, w0 |-> 0, x |-> 0, gmax |-> 0, n |-> 0]

NoOut == [synapses |-> NoMap, stim |-> [state |-> "todo"], pc |-> "none"]

InitRun(c, sv, s0) ==
    /\ cfg = c
    /\ seedv = sv
    /\ run = 1
    /\ pc = "start"
    /\ stim = [state |-> "todo"]
    /\ gen = FreshGen(s0)
    /\ groups = {}
    /\ subgroups = NoMap
    /\ label = NoMap
    /\ synapses = NoMap
    /\ initc = NoMap
    /\ out = NoOut

Timings ==
    {t \in (0 .. MaxT) \X (0 .. MaxT) \X (1 .. MaxT) :
        t[1] <= t[2] /\ t[2] <= t[3]}

Cfg(kind, decN, decSub, senN, senSub, two_comp, online, replicate, ramp, t) ==
    [kind |-> kind, decN |-> decN, decSub |-> decSub, senN |-> senN,
     senSub |-> senSub, two_comp |-> two_comp, online_stim |-> online,
     replicate_stim |-> replicate, ramp_stim |-> ramp,
     stim_on |-> t[1], stim_off |-> t[2], runtime |-> t[3]]

\* one assembler run over every population configuration
Init ==
    /\ \E kind \in {"hier", "plastic"}, decN \in 1 .. MaxN, decSub \in Subs,
          senN \in 1 .. MaxN, senSub \in Subs, two_comp \in BOOLEAN,
          s \in Seeds, s0 \in 0 .. RngMod - 1 :
          InitRun(Cfg(kind, decN, decSub, senN, senSub, two_comp,
                      FALSE, FALSE, FALSE, <<1, 2, 3>>), <<s, s>>, s0)
    /\ syn = NoSyn
    /\ dend = NoDend(DefaultPar)

Next ==
    \/ MkDecCircuit
    \/ MkSenCircuit
    \/ MkFffbSynapses
    \/ MkSenCircuitPlastic
    \/ SeedNet
    \/ InitCondsDec
    \/ InitCondsSen
    \/ Assemble
    \/ MkSenStimulus

Spec == Init /\ [][Next]_vars

\* two independent runs of the assembler in one configuration
InitPair ==
    /\ \E kind \in {"hier", "plastic"}, senN \in 2 .. MaxN,
          senSub \in {sb \in Subs : ValidSub(sb)}, two_comp \in BOOLEAN,
          s1 \in Seeds, s2 \in Seeds, s0 \in 0 .. RngMod - 1 :
          InitRun(Cfg(kind, MaxN, <<1, 4>>, senN, senSub, two_comp,
                      FALSE, FALSE, FALSE, <<1, 2, 3>>), <<s1, s2>>, s0)
    /\ syn = NoSyn
    /\ dend = NoDend(DefaultPar)

NextPair == Next \/ NextRun

SpecPair == InitPair /\ [][NextPair]_vars

\* two independent runs of the stimulus generator in one configuration
InitStim ==
    /\ \E senN \in 1 .. MaxN, senSub \in {sb \in Subs : ValidSub(sb)},
          online \in BOOLEAN, replicate \in BOOLEAN, ramp \in BOOLEAN,
          t \in Timings, s1 \in Seeds, s2 \in Seeds :
          InitRun(Cfg("plastic", MaxN, <<1, 4>>, senN, senSub, TRUE,
                      online, replicate, ramp, t), <<s1, s2>>, 0)
    /\ syn = NoSyn
    /\ dend = NoDend(DefaultPar)

NextStim == MkSenStimulus \/ NextRun

SpecStim == InitStim /\ [][NextStim]_vars

\* the plastic sensory network: build, then spikes, bursts and update ticks
InitPlastic ==
    /\ InitRun(Cfg("plastic", MaxN, <<1, 4>>, 2, <<1, 2>>, TRUE,
                    FALSE, FALSE, FALSE, <<1, 2, 3>>), <<1, 1>>, 0)
    /\ syn = NoSyn
    /\ \E par \in PlasticPars : dend = NoDend(par)

NextPlastic ==
    \/ MkSenCircuitPlastic
    \/ SeedNet
    \/ InitCondsSen
    \/ Assemble
    \/ SomaSpike
    \/ BurstStopDecay
    \/ BurstStartDecay
    \/ DendThreshold
    \/ Tick

SpecPlastic == InitPlastic /\ [][NextPlastic]_vars

\* the clock always advances: every tau_update tick is eventually taken
SpecPlasticFair == SpecPlastic /\ WF_vars(Tick)

\* one connection of a projection of mk_sen_synapses under presynaptic spikes
InitW ==
    /\ InitRun(Cfg("plastic", MaxN, <<1, 4>>, MaxN, <<1, 2>>, TRUE,
                    FALSE, FALSE, FALSE, <<1, 2, 3>>), <<1, 1>>, 0)
    /\ syn = NoSyn
    /\ dend = NoDend(DefaultPar)

NextW == AssignW \/ OnPre

SpecW == InitW /\ [][NextW]_vars


\* ================================================================= claims
FloorSub(N, sub) == (N * sub[1]) \div sub[2]

Built(names) == names \subseteq DOMAIN subgroups

ValidCfg == ValidSub(cfg.decSub) /\ ValidSub(cfg.senSub)

Partition(parts, N) ==
    /\ \A a \in parts, b \in parts :
          a # b => Units(subgroups[a]) \cap Units(subgroups[b]) = {}
    /\ UNION {Units(subgroups[a]) : a \in parts} = 0 .. N - 1

\* C1: for N_E >= 1 and sub in (0, 0.5] the sub-assemblies of a population
\* are disjoint, cover it and their sizes sum to N_E: DE1, DE2, DE3 in the
\* decision circuit with |DE1| = |DE2| = floor(N_E*sub), SE1, SE2 in the
\* sensory circuits.
C1_AssembliesPartitionPopulation ==
    /\ (Built({"DE1", "DE2", "DE3"}) /\ ValidCfg) =>
          /\ Partition({"DE1", "DE2", "DE3"}, cfg.decN)
          /\ Size(subgroups.DE1) + Size(subgroups.DE2) + Size(subgroups.DE3)
                = cfg.decN
          /\ Size(subgroups.DE1) = FloorSub(cfg.decN, cfg.decSub)
          /\ Size(subgroups.DE2) = FloorSub(cfg.decN, cfg.decSub)
    /\ (Built({"SE1", "SE2"}) /\ ValidCfg) =>
          /\ Partition({"SE1", "SE2"}, cfg.senN)
          /\ Size(subgroups.SE1) + Size(subgroups.SE2) = cfg.senN

\* C2: for N_E >= 1 and sub in (0, 0.5] assembly 1 and assembly 2 of every
\* partitioned population both have floor(N_E*sub) units: DE1/DE2, SE1/SE2
\* and dend1/dend2.
C2_AssembliesOneAndTwoEqual ==
    /\ (Built({"DE1", "DE2"}) /\ ValidCfg) =>
          /\ Size(subgroups.DE1) = FloorSub(cfg.decN, cfg.decSub)
          /\ Size(subgroups.DE2) = Size(subgroups.DE1)
    /\ (Built({"SE1", "SE2"}) /\ ValidCfg) =>
          /\ Size(subgroups.SE1) = FloorSub(cfg.senN, cfg.senSub)
          /\ Size(subgroups.SE2) = Size(subgroups.SE1)
    /\ (Built({"dend1", "dend2"}) /\ ValidCfg) =>
          /\ Size(subgroups.dend1) = FloorSub(cfg.senN, cfg.senSub)
          /\ Size(subgroups.dend2) = Size(subgroups.dend1)

\* the ordered first-match-wins table of the weight rule
WeightTable(lpre, lpost) ==
    IF lpre # 3 /\ lpre = lpost THEN "w_p"
    ELSE IF lpost = 3 THEN "1"
    ELSE "w_m"

LabelledPairs(l1, l2) ==
    {p \in synapses.synDEDEa.pairs : label[p[1]] = l1 /\ label[p[2]] = l2}

\* C3: for every connected pair of the decision excitatory population whose
\* endpoints carry labels in {1,2,3}, the weight left by the three masked
\* assignments (condsame, conddiff, condrest, in this order) on
\* synDEDEn.w_nmda and synDEDEa.w is the one of the first-match-wins table:
\* same selective assembly -> w_p*base, else target in assembly 3 -> base,
\* else w_m*base.
C3_WeightsFollowDecisionTable ==
    "synDEDEa" \in DOMAIN synapses =>
        \A p \in synapses.synDEDEa.pairs :
            (label[p[1]] \in 1 .. 3 /\ label[p[2]] \in 1 .. 3) =>
                /\ synapses.synDEDEa.w[p] =
                      [scale |-> WeightTable(label[p[1]], label[p[2]]),
                       base |-> "gEEa/gleakE"]
                /\ synapses.synDEDEn.w_nmda[p] =
                      [scale |-> WeightTable(label[p[1]], label[p[2]]),
                       base |-> "gEEn/gleakE"]

C3_Witness ==
    /\ "synDEDEa" \in DOMAIN synapses
    /\ \A l1 \in 1 .. 3, l2 \in 1 .. 3 : LabelledPairs(l1, l2) # {}
    /\ \E p \in LabelledPairs(1, 3) : synapses.synDEDEa.w[p].scale = "1"
    /\ \E p \in LabelledPairs(1, 1) : synapses.synDEDEa.w[p].scale = "w_p"

\* C4: the weight of a connection of a clipping projection of
\* mk_sen_synapses is in [0, gmax] in every state from build time on.
C4_WeightAlwaysWithinBounds ==
    syn.name \in SenProjections => (0 <= syn.w /\ syn.w <= syn.gmax)

\* C5: in a run the generator is seeded exactly once, and no stochastic draw
\* (connection draw, weight jitter, initial condition, stimulus noise) is
\* taken before that seeding.
C5_SeededOnceBeforeEveryDraw ==
    ValidCfg =>
        /\ gen.early = 0
        /\ (pc = "done" /\ stim.state # "todo") => gen.nseed = 1

\* C6: two builds with the same seed and configuration produce the same
\* connectivity (pairs and weights of every projection) and the same stimulus
\* traces, whatever the generator state before each build.
C6_SameSeedSameBuild ==
    (run = 2 /\ seedv[1] = seedv[2] /\ pc = "done" /\ out.pc = "done"
       /\ stim.state # "todo") =>
        /\ synapses = out.synapses
        /\ stim = out.stim

BothArrays == run = 2 /\ stim.state = "array" /\ out.stim.state = "array"

\* C7: in replicate mode two runs of mk_sen_stimulus with different trial
\* seeds and the same configuration have the same shared components z1, z2.
C7_ReplicateSharedIdentical ==
    (BothArrays /\ cfg.replicate_stim) =>
        (stim.z1 = out.stim.z1 /\ stim.z2 = out.stim.z2)

C7_Witness ==
    /\ BothArrays /\ cfg.replicate_stim
    /\ seedv[1] # seedv[2]
    /\ Len(stim.z1) >= 2
    /\ stim.z1 = out.stim.z1

PrivateDrawn ==
    BothArrays /\ stim.nn >= 1 /\ cfg.stim_off > cfg.stim_on

\* C8 as stated: the reseeding before the private components is independent
\* of the shared-component seed, so that in replicate mode only the shared
\* component is reproduced: two replicate runs with different trial seeds do
\* not reproduce the private per-unit components.
C8_PrivateNotReproduced ==
    (PrivateDrawn /\ cfg.replicate_stim /\ seedv[1] # seedv[2]) =>
        (stim.seed2 # out.stim.seed2
           \/ stim.zk1 # out.stim.zk1 \/ stim.zk2 # out.stim.zk2)

\* C8 amended: the second seed is drawn from the generator itself, so in
\* replicate mode the second seed and the private components zk1, zk2 are
\* the same in two runs whatever their trial seeds.
C8_ReplicatePrivateIdentical ==
    (BothArrays /\ cfg.replicate_stim) =>
        /\ stim.seed2 = out.stim.seed2
        /\ stim.zk1 = out.stim.zk1
        /\ stim.zk2 = out.stim.zk2

C8_Witness ==
    /\ PrivateDrawn /\ cfg.replicate_stim
    /\ seedv[1] # seedv[2]
    /\ stim.nn >= 2
    /\ stim.zk1 = out.stim.zk1
    /\ \E u \in 0 .. stim.nn - 1 : \E k \in DOMAIN stim.zk1[u] :
          stim.zk1[u][k] # 0

InWindow(k) == cfg.stim_on <= k /\ k < cfg.stim_off

TraceShape(full, win) ==
    \A u \in 0 .. stim.nn - 1 :
        /\ Len(full[u]) = cfg.runtime
        /\ \A k \in 0 .. cfg.runtime - 1 :
              IF InWindow(k) THEN full[u][k + 1] = win[u][k - cfg.stim_on + 1]
                             ELSE full[u][k + 1] = 0

\* C9: with 0 <= stim_on <= stim_off <= runtime, the precomputed trace of
\* every unit of both assemblies has runtime samples, is zero at every index
\* outside [stim_on, stim_off) and carries the generated values at the
\* indices inside.
C9_TraceZeroOutsideWindow ==
    stim.state = "array" =>
        /\ DOMAIN stim.i1t = 0 .. stim.nn - 1
        /\ DOMAIN stim.i2t = 0 .. stim.nn - 1
        /\ TraceShape(stim.i1t, stim.stim1)
        /\ TraceShape(stim.i2t, stim.stim2)

C9_Witness ==
    /\ stim.state = "array" /\ stim.nn >= 1
    /\ 0 < cfg.stim_on /\ cfg.stim_on < cfg.stim_off
    /\ cfg.stim_off < cfg.runtime
    /\ \E k \in 0 .. cfg.runtime - 1 : InWindow(k) /\ stim.i1t[0][k + 1] # 0
    /\ stim.i1t[0][1] = 0

SubUsed ==
    IF cfg.kind = "hier"
    THEN (IF pc \in {"start", "dec"} THEN {} ELSE {cfg.senSub})
         \cup (IF pc = "start" THEN {} ELSE {cfg.decSub})
    ELSE IF pc = "start" THEN {} ELSE {cfg.senSub, cfg.decSub}

\* C10: a build whose selective fraction is outside (0, 0.5] is rejected at
\* build time, before any stochastic draw and without producing a population
\* or a projection.
C10_InvalidSubRejected ==
    (\E sub \in SubUsed : ~ValidSub(sub)) =>
        /\ pc = "failed"
        /\ groups = {}
        /\ DOMAIN synapses = {}
        /\ stim.state = "todo" => gen.ndraw = 0

\* C11: a unit whose control starts at 0 and whose burst count equals the
\* target B0 at every tau_update tick so far has control 0 after every update.
C11_ControlStaysAtFixedPoint ==
    dend.built =>
        \A u \in DOMAIN dend.muOUd :
            (dend.seen >= 1 /\ dend.held[u]) => dend.muOUd[u] = 0

\* an updated unit that met a positive target at two ticks or more
C11_Witness ==
    /\ dend.built
    /\ dend.seen >= 2
    /\ \E u \in dend.plastic :
          dend.held[u] /\ dend.B[u] >= 1 /\ dend.muOUd[u] = 0

\* a step that is a tau_update tick
IsTick == dend.built /\ dend'.tick # dend.tick

\* C12 (as stated): at every tau_update tick every dendritic unit, of dend1
\* and of dend2 alike, gets control = clip(control - eta*(B - B0), -I_max, 0)
\* computed from its own burst count.
C12_EveryUnitUpdated ==
    [][IsTick =>
         \A u \in DOMAIN dend.muOUd :
             dend'.muOUd[u] =
                 Clip(dend.muOUd[u] - dend.par.eta * (dend.B[u] - dend.par.B0),
                      -IMax, 0)]_vars

\* C12 (amended): at every tau_update tick every unit of dend1 gets
\* control = clip(control - eta*(B - B0), -I_max, 0) from its own burst
\* count, and every unit of dend2 keeps the control it had.
C12_OnlyDend1Updated ==
    [][IsTick =>
         /\ \A u \in Units(subgroups.dend1) :
                dend'.muOUd[u] =
                    Clip(dend.muOUd[u]
                           - dend.par.eta * (dend.B[u] - dend.par.B0),
                         -IMax, 0)
         /\ \A u \in Units(subgroups.dend2) :
                dend'.muOUd[u] = dend.muOUd[u]]_vars

\* after a tick, a unit of dend1 with a lowered control next to a unit of
\* dend2 whose count was above target at a tick and whose control is still 0
C12_Witness ==
    /\ dend.built
    /\ dend.seen >= 1
    /\ \E u \in Units(subgroups.dend1) : dend.muOUd[u] < 0
    /\ \E u \in Units(subgroups.dend2) : dend.above[u] /\ dend.muOUd[u] = 0

\* unit u exists and its count was above the target at a tick
Above(u) == dend.built /\ u \in DOMAIN dend.above /\ dend.above[u]

\* unit u exists and its control is at the lower clip bound
AtLowerBound(u) == dend.built /\ u \in DOMAIN dend.muOUd /\ dend.muOUd[u] = -IMax

\* no step decreases or resets the burst count of a unit
BNeverDecreases ==
    [][dend.built => \A u \in DOMAIN dend.B : dend'.B[u] >= dend.B[u]]_vars

SameSlice(p) ==
    (p[1] \in Units(subgroups.SE1)) <=> (p[2] \in Units(subgroups.SE1))

\* every connection of synSESE has the potentiated weight exactly when its
\* endpoints are in the same sub-assembly slice
WeightsFollowSlices ==
    \A p \in synapses.synSESE.pairs :
        (synapses.synSESE.w[p].base = "w_p * gEE/gleakE") <=> SameSlice(p)

\* C14: for a selective fraction in (0, 0.5] the test j < N_E*sub of
\* condsame/conddiff is true exactly for the units j of senE[:int(N_E*sub)],
\* so a connection gets the same-assembly weight exactly when both endpoints
\* are in the same sub-assembly slice.
C14_ConditionMatchesAssembly ==
    (ValidCfg /\ Built({"SE1", "SE2"}) /\ "synSESE" \in DOMAIN synapses) =>
        /\ \A j \in 0 .. cfg.senN - 1 :
              SenLt(j, cfg.senN, cfg.senSub) <=> j \in Units(subgroups.SE1)
        /\ WeightsFollowSlices
====
